---------------------------- MODULE Spec2Model ----------------------------
(***************************************************************************)
(* A model of fetch-straw-conditions.py: the brace scan that cuts the      *)
(* first JSON object out of the decompressed midas buffer, the traversal   *)
(* of the Tracker configuration tree, the hardware database session, the   *)
(* merge of the two per-panel mappings and the writer of the Offline       *)
(* table.                                                                  *)
(*                                                                         *)
(* Python values are represented as follows.  A bytes object is a sequence *)
(* of byte values; Python's 0-based buff[i] is element i + 1 here.  A str  *)
(* that the program inspects (a dict key matched by a regular expression,  *)
(* a panel label built by '%03d') is a sequence of one-character strings;  *)
(* a str that is only passed around is a TLA+ string.  A dict is a         *)
(* function on its set of keys.  An exception is a record; NoExc is "no    *)
(* exception raised".                                                      *)
(***************************************************************************)
EXTENDS Integers, Sequences, FiniteSets, TLC

VARIABLES
    pc,                  \* position of the running function
    exc,                 \* the exception that left the function, or NoExc
    buff,                \* fetch_midas_configuration: the decompressed buffer
    chunk,               \* fetch_midas_configuration: buff[start:idx], decoded
    parsed,              \* fetch_midas_configuration: rv = json.loads(buff)
    stkeys, plkeys, pnkeys,  \* get_midas_conditions: keys the three loops have consumed
    kst, kpl, kpn, vpn,  \* get_midas_conditions: the loop variables
    rv,                  \* get_midas_conditions: rv
    connection,          \* get_hardware_conditions: state of the psycopg2 connection
    transaction,         \* get_hardware_conditions: state of its transaction
    cursor,              \* get_hardware_conditions: state of the cursor
    query,               \* get_hardware_conditions: query
    lastid,              \* panel_id of the last row the cursor delivered
    hw_rv,               \* get_hardware_conditions: rv
    geography,           \* main: geography
    midas_conditions,    \* get_conditions: midas_conditions
    hardware_conditions, \* get_conditions: hardware_conditions
    allowed,             \* get_conditions: allowed
    conditions,          \* main: conditions, the dict get_conditions returns
    order,               \* iteration order of the dict conditions
    il, ic, ip,          \* write_offline_table: positions of the three outer loops
    out                  \* the lines passed to write, in order

xvars == <<buff, chunk, parsed>>
nvars == <<stkeys, plkeys, pnkeys, kst, kpl, kpn, vpn, rv>>
hvars == <<connection, transaction, cursor, query, lastid, hw_rv>>
mvars == <<geography, midas_conditions, hardware_conditions, allowed,
           conditions, order, il, ic, ip, out>>
vars == <<pc, exc, xvars, nvars, hvars, mvars>>

-----------------------------------------------------------------------------
(* Exceptions *)

NoExc == [type |-> "none", msg |-> "", label |-> <<>>, inner |-> ""]

\* raise <type>(msg)
Raise(type, msg) == [type |-> type, msg |-> msg, label |-> <<>>, inner |-> ""]

\* raise Exception(fmt % label)  and  raise Exception(fmt % (label, str(e)))
RaiseLabelled(fmt, label, inner) ==
    [type |-> "Exception", msg |-> fmt, label |-> label, inner |-> inner]

\* The empty dict {}.
EmptyDict == [k \in {} |-> <<>>]

\* d with d[k] = v set, as the Python statement d[k] = v leaves it.
SetItem(d, k, v) == [x \in DOMAIN d \cup {k} |-> IF x = k THEN v ELSE d[x]]

-----------------------------------------------------------------------------
(* fetch_midas_configuration *)

plus == 123

mnus == 125

start == 16

\* Longest payload that follows the 16-byte header in the buffers explored.
MaxBody == 4

\* The byte values explored: '{', '}' and 'x'.
Bytes == {plus, mnus, 120}

RECURSIVE SeqsOfLen(_, _)
SeqsOfLen(S, n) ==
    IF n = 0 THEN {<<>>}
    ELSE {Append(s, b) : s \in SeqsOfLen(S, n - 1), b \in S}

Headers == {[i \in 1..start |-> b] : b \in Bytes}

Bodies == UNION {SeqsOfLen(Bytes, n) : n \in 0..MaxBody}

\* What lz4.frame.decompress may return: a header and a payload, or fewer
\* bytes than a header and one payload byte.
Buffers ==
    {h \o b : h \in Headers, b \in Bodies}
        \cup {SubSeq(h, 1, n) : h \in Headers, n \in {0, 1, start - 1}}

\* The scan with the test of score placed before idx += 1: the loop is left
\* with idx still at the closing byte.
RECURSIVE ScanFromOffByOne(_, _, _)
ScanFromOffByOne(b, idx, score) ==
    IF idx < Len(b)
    THEN LET s == IF b[idx + 1] = plus THEN score + 1
                  ELSE IF b[idx + 1] = mnus THEN score - 1
                  ELSE score
         IN  IF s < 1 THEN idx ELSE ScanFromOffByOne(b, idx + 1, s)
    ELSE idx

\* The while loop entered with the given idx and score; the value of idx
\* when the loop is left.
RECURSIVE ScanFrom(_, _, _)
ScanFrom(b, idx, score) ==
    IF idx < Len(b)
    THEN LET s == IF b[idx + 1] = plus THEN score + 1
                  ELSE IF b[idx + 1] = mnus THEN score - 1
                  ELSE score
         IN  IF s < 1 THEN idx + 1 ELSE ScanFrom(b, idx + 1, s)
    ELSE idx

\* buff[start:idx] after the scan.
ExtractObject(b) == SubSeq(b, start + 1, ScanFrom(b, start, 0))

\* json.loads on a str over the characters '{', '}' and 'x': the only JSON
\* text over them is "{}".
JsonValid(s) == s = <<plus, mnus>>

\* sp.check_output and lz4.frame.decompress return a buffer.
FetchCompressed ==
    /\ pc = "fetch"
    /\ \E b \in Buffers : buff' = b
    /\ pc' = "scan"
    /\ UNCHANGED <<exc, chunk, parsed, nvars, hvars, mvars>>

\* The ssh command exits nonzero, or the bytes are no lz4 frame.
FetchFails ==
    /\ pc = "fetch"
    /\ \E e \in {Raise("CalledProcessError", ""), Raise("RuntimeError", "")} :
          exc' = e
    /\ pc' = "raised"
    /\ UNCHANGED <<xvars, nvars, hvars, mvars>>

\* The check of the leading byte, the scan, the slice and the decode.
ExtractStep ==
    /\ pc = "scan"
    /\ IF Len(buff) <= start
       THEN /\ exc' = Raise("IndexError", "index out of range")
            /\ pc' = "raised"
            /\ UNCHANGED chunk
       ELSE IF buff[start + 1] # plus
       THEN /\ exc' = Raise("Exception", "malformed midas configuration")
            /\ pc' = "raised"
            /\ UNCHANGED chunk
       ELSE /\ chunk' = ExtractObject(buff)
            /\ pc' = "loads"
            /\ UNCHANGED exc
    /\ UNCHANGED <<buff, parsed, nvars, hvars, mvars>>

\* rv = json.loads(buff); return rv
JsonLoads ==
    /\ pc = "loads"
    /\ IF JsonValid(chunk)
       THEN /\ parsed' = "{}"
            /\ pc' = "returned"
            /\ UNCHANGED exc
       ELSE /\ exc' = Raise("JSONDecodeError", "")
            /\ pc' = "raised"
            /\ UNCHANGED parsed
    /\ UNCHANGED <<buff, chunk, nvars, hvars, mvars>>

-----------------------------------------------------------------------------
(* get_midas_conditions *)

MaskLen == 96

Station_ == <<"S", "t", "a", "t", "i", "o", "n", "_">>

Plane_ == <<"P", "l", "a", "n", "e", "_">>

Panel_ == <<"P", "a", "n", "e", "l", "_">>

Digit == {"0", "1", "2", "3", "4", "5", "6", "7", "8", "9"}

\* re.match(p, k) is a match of p at the start of k; k may go on after it.

\* re.match('Station_0{2}', k)
MatchStation(k) ==
    /\ Len(k) >= Len(Station_) + 2
    /\ SubSeq(k, 1, Len(Station_)) = Station_
    /\ k[Len(Station_) + 1] = "0"
    /\ k[Len(Station_) + 2] = "0"

\* re.match('Plane_[0-9]{2}', k)
MatchPlane(k) ==
    /\ Len(k) >= Len(Plane_) + 2
    /\ SubSeq(k, 1, Len(Plane_)) = Plane_
    /\ k[Len(Plane_) + 1] \in Digit
    /\ k[Len(Plane_) + 2] \in Digit

\* re.match('Panel_[0-9]{2}', k)
MatchPanel(k) ==
    /\ Len(k) >= Len(Panel_) + 2
    /\ SubSeq(k, 1, Len(Panel_)) = Panel_
    /\ k[Len(Panel_) + 1] \in Digit
    /\ k[Len(Panel_) + 2] \in Digit

\* The decimal digits of n, most significant first.
RECURSIVE Decimal(_)
Decimal(n) ==
    LET d == <<"0", "1", "2", "3", "4", "5", "6", "7", "8", "9">>[(n % 10) + 1]
    IN  IF n < 10 THEN <<d>> ELSE Append(Decimal(n \div 10), d)

\* '%03d' % n for n >= 0: zero-padded to a width of at least 3.
RECURSIVE ZeroPad(_, _)
ZeroPad(s, width) == IF Len(s) >= width THEN s ELSE ZeroPad(<<"0">> \o s, width)

\* 'MN%03d' % n
PanelLabel(n) == <<"M", "N">> \o ZeroPad(Decimal(n), 3)

\* The keys explored at each level of the tree: two that match the level's
\* pattern and one that does not.
StationKeys ==
    {Station_ \o <<"0", "0">>, Station_ \o <<"0", "0", "1">>, Station_ \o <<"0", "1">>}

PlaneKeys == {Plane_ \o <<"0", "0">>, Plane_ \o <<"1", "7">>, Plane_ \o <<"A">>}

PanelKeys == {Panel_ \o <<"0", "0">>, Panel_ \o <<"0", "5">>, <<"p">> \o Panel_}

\* The Name values explored.
Names == {PanelLabel(1), PanelLabel(2)}

\* The ch_mask values explored: of 96 entries and of other lengths, with
\* every channel enabled or with channels 0 and 95 disabled.
Masks ==
    {[i \in 1..n |-> (i - 1) \notin off] :
        n \in {MaskLen, MaskLen - 1, MaskLen + 1, 0}, off \in {{}, {0, MaskLen - 1}}}

\* The panel dicts explored: with both fields, or with one of them missing.
Panels ==
    {[Name |-> l, ch_mask |-> m] : l \in Names, m \in Masks}
        \cup {[Name |-> l] : l \in Names}
        \cup {[ch_mask |-> m] : m \in {[i \in 1..MaskLen |-> TRUE]}}

\* The comprehension without its "not": the indices of the enabled channels.
RECURSIVE DisabledFromKeepEnabled(_, _)
DisabledFromKeepEnabled(enabled, i) ==
    IF i >= Len(enabled) THEN <<>>
    ELSE (IF enabled[i + 1] THEN <<i>> ELSE <<>>)
             \o DisabledFromKeepEnabled(enabled, i + 1)

\* [i for i in range(len(enabled)) if not enabled[i]], from index i on.
RECURSIVE DisabledFrom(_, _)
DisabledFrom(enabled, i) ==
    IF i >= Len(enabled) THEN <<>>
    ELSE (IF ~enabled[i + 1] THEN <<i>> ELSE <<>>) \o DisabledFrom(enabled, i + 1)

\* The tree is read as the loops reach it: each step of a loop takes a key
\* the loop has not yet taken (the keys of a dict are distinct), or finds
\* the dict exhausted.

\* for kst,vst in configuration.items(): if re.match('Station_0{2}', kst):
StationNext ==
    /\ pc = "stations"
    /\ \E k \in StationKeys \ stkeys :
          /\ kst' = k
          /\ stkeys' = stkeys \cup {k}
          /\ IF MatchStation(k)
             THEN pc' = "planes" /\ plkeys' = {}
             ELSE pc' = "stations" /\ UNCHANGED plkeys
    /\ UNCHANGED <<exc, pnkeys, kpl, kpn, vpn, rv, xvars, hvars, mvars>>

\* The station loop is exhausted: return rv
StationsDone ==
    /\ pc = "stations"
    /\ pc' = "returned"
    /\ UNCHANGED <<exc, nvars, xvars, hvars, mvars>>

\* for kpl,vpl in vst.items(): if re.match('Plane_[0-9]{2}', kpl):
PlaneNext ==
    /\ pc = "planes"
    /\ \E k \in PlaneKeys \ plkeys :
          /\ kpl' = k
          /\ plkeys' = plkeys \cup {k}
          /\ IF MatchPlane(k)
             THEN pc' = "panels" /\ pnkeys' = {}
             ELSE pc' = "planes" /\ UNCHANGED pnkeys
    /\ UNCHANGED <<exc, stkeys, kst, kpn, vpn, rv, xvars, hvars, mvars>>

PlanesDone ==
    /\ pc = "planes"
    /\ pc' = "stations"
    /\ UNCHANGED <<exc, nvars, xvars, hvars, mvars>>

\* for kpn,vpn in vpl.items(): if re.match('Panel_[0-9]{2}', kpn):
PanelNext ==
    /\ pc = "panels"
    /\ \E k \in PanelKeys \ pnkeys, v \in Panels :
          /\ kpn' = k
          /\ vpn' = v
          /\ pnkeys' = pnkeys \cup {k}
          /\ pc' = IF MatchPanel(k) THEN "body" ELSE "panels"
    /\ UNCHANGED <<exc, stkeys, plkeys, kst, kpl, rv, xvars, hvars, mvars>>

PanelsDone ==
    /\ pc = "panels"
    /\ pc' = "planes"
    /\ UNCHANGED <<exc, nvars, xvars, hvars, mvars>>

\* The loop body with the mask read and checked before the label is looked
\* up in rv.
PanelOutcomeMaskFirst(m, v) ==
    IF "Name" \notin DOMAIN v
    THEN [exc |-> Raise("KeyError", "Name"), rv |-> m]
    ELSE LET label == v["Name"] IN
         IF "ch_mask" \notin DOMAIN v
         THEN [exc |-> RaiseLabelled("exception: %s: %s", label, "'ch_mask'"),
               rv |-> m]
         ELSE LET enabled == v["ch_mask"] IN
              IF Len(enabled) # MaskLen
              THEN [exc |-> RaiseLabelled("exception: %s: %s", label,
                                          "malformed readout mask"),
                    rv |-> m]
              ELSE IF label \in DOMAIN m
              THEN [exc |-> RaiseLabelled("encountered duplicate panel %s",
                                          label, ""),
                    rv |-> m]
              ELSE [exc |-> NoExc,
                    rv |-> SetItem(m, label,
                             [readout_disabled |-> DisabledFrom(enabled, 0)])]

\* What the body of the innermost loop does with the panel vpn when rv is
\* m: the exception it raises, or NoExc and the new rv.
PanelOutcome(m, v) ==
    IF "Name" \notin DOMAIN v
    THEN [exc |-> Raise("KeyError", "Name"), rv |-> m]
    ELSE LET label == v["Name"] IN
         IF label \in DOMAIN m
         THEN [exc |-> RaiseLabelled("encountered duplicate panel %s", label, ""),
               rv |-> m]
         ELSE IF "ch_mask" \notin DOMAIN v
         THEN [exc |-> RaiseLabelled("exception: %s: %s", label, "'ch_mask'"),
               rv |-> m]
         ELSE LET enabled == v["ch_mask"] IN
              IF Len(enabled) # MaskLen
              THEN [exc |-> RaiseLabelled("exception: %s: %s", label,
                                          "malformed readout mask"),
                    rv |-> m]
              ELSE [exc |-> NoExc,
                    rv |-> SetItem(m, label,
                             [readout_disabled |-> DisabledFrom(enabled, 0)])]

\* label = vpn['Name'] ... rv[label] = {'readout_disabled': disabled}
PanelBody ==
    /\ pc = "body"
    /\ LET o == PanelOutcome(rv, vpn) IN
          /\ exc' = o.exc
          /\ rv' = o.rv
          /\ pc' = IF o.exc = NoExc THEN "panels" ELSE "raised"
    /\ UNCHANGED <<stkeys, plkeys, pnkeys, kst, kpl, kpn, vpn, xvars, hvars, mvars>>

-----------------------------------------------------------------------------
(* build_hardware_query, get_hardware_conditions *)

\* The panel_id values explored; 'MN%03d' gives the last one four digits.
PanelIds == {1, 2, 1000}

\* The integer-array column values explored.
StrawLists == {<<>>, <<3, 7>>}

WireLists == {<<>>, <<1>>}

\* The query string, as the sequence of the pieces appended to rv; a piece
\* is <<text>> or <<format, argument>>.
RECURSIVE PanelPredicates(_, _)
PanelPredicates(panels, i) ==
    IF i >= Len(panels) THEN <<>>
    ELSE (IF 0 < i THEN << <<" OR">> >> ELSE <<>>)
            \o << <<" panel_id = %d", panels[i + 1]>> >>
            \o PanelPredicates(panels, i + 1)

build_hardware_query(panels) ==
    << <<"SELECT panel_id,missing_straws,missing_wires from qc.panels">> >>
        \o (IF 0 < Len(panels) THEN << <<" WHERE">> >> ELSE <<>>)
        \o PanelPredicates(panels, 0)
        \o << <<" ORDER BY panel_id ASC;">> >>

\* psycopg2: leaving "with connection:" commits the transaction, or rolls it
\* back when an exception leaves the block; it does not close the
\* connection.  Leaving "with connection.cursor() as cursor:" closes the
\* cursor.

\* An exception leaves the two with blocks: the cursor, if one was opened,
\* is closed, the transaction is rolled back, and the exception leaves
\* get_hardware_conditions; line 107 is not reached.
LeaveWithByException(e) ==
    /\ exc' = e
    /\ cursor' = IF cursor = "open" THEN "closed" ELSE cursor
    /\ transaction' = "rolled back"
    /\ pc' = "raised"
    /\ UNCHANGED <<connection, query, lastid, hw_rv>>

\* connection = pg.connect(dsn); query = build_hardware_query(); rv = {}
Connect ==
    /\ pc = "connect"
    /\ connection' = "open"
    /\ query' = build_hardware_query(<<>>)
    /\ hw_rv' = EmptyDict
    /\ pc' = "cursor"
    /\ UNCHANGED <<exc, transaction, cursor, lastid, xvars, nvars, mvars>>

\* pg.connect raises: no connection was opened.
ConnectFails ==
    /\ pc = "connect"
    /\ exc' = Raise("OperationalError", "connect")
    /\ pc' = "raised"
    /\ UNCHANGED <<hvars, xvars, nvars, mvars>>

\* with connection: with connection.cursor() as cursor:
OpenCursor ==
    /\ pc = "cursor"
    /\ cursor' = "open"
    /\ pc' = "execute"
    /\ UNCHANGED <<exc, connection, transaction, query, lastid, hw_rv,
                   xvars, nvars, mvars>>

CursorFails ==
    /\ pc = "cursor"
    /\ LeaveWithByException(Raise("InterfaceError", "cursor"))
    /\ UNCHANGED <<xvars, nvars, mvars>>

\* cursor.execute(query)
Execute ==
    /\ pc = "execute"
    /\ transaction' = "active"
    /\ pc' = "rows"
    /\ UNCHANGED <<exc, connection, cursor, query, lastid, hw_rv,
                   xvars, nvars, mvars>>

ExecuteFails ==
    /\ pc = "execute"
    /\ LeaveWithByException(Raise("ProgrammingError", "execute"))
    /\ UNCHANGED <<xvars, nvars, mvars>>

\* for row in cursor: one row, in the ascending order of panel_id that the
\* query asks for.
NextRow ==
    /\ pc = "rows"
    /\ \E id \in PanelIds, straws \in StrawLists, wires \in WireLists :
          /\ lastid <= id
          /\ lastid' = id
          /\ hw_rv' = SetItem(hw_rv, PanelLabel(id),
                              [missing_straws |-> straws, missing_wires |-> wires])
    /\ UNCHANGED <<pc, exc, connection, transaction, cursor, query,
                   xvars, nvars, mvars>>

RowFails ==
    /\ pc = "rows"
    /\ LeaveWithByException(Raise("OperationalError", "fetch"))
    /\ UNCHANGED <<xvars, nvars, mvars>>

\* The rows are exhausted: the cursor's with block is left.
RowsDone ==
    /\ pc = "rows"
    /\ cursor' = "closed"
    /\ pc' = "commit"
    /\ UNCHANGED <<exc, connection, transaction, query, lastid, hw_rv,
                   xvars, nvars, mvars>>

\* The connection's with block is left without an exception: commit.
Commit ==
    /\ pc = "commit"
    /\ transaction' = "committed"
    /\ pc' = "close"
    /\ UNCHANGED <<exc, connection, cursor, query, lastid, hw_rv,
                   xvars, nvars, mvars>>

\* The commit raises; the exception leaves get_hardware_conditions.
CommitFails ==
    /\ pc = "commit"
    /\ exc' = Raise("OperationalError", "commit")
    /\ pc' = "raised"
    /\ UNCHANGED <<hvars, xvars, nvars, mvars>>

\* connection.close(); return rv
Close ==
    /\ pc = "close"
    /\ connection' = "closed"
    /\ pc' = "returned"
    /\ UNCHANGED <<exc, transaction, cursor, query, lastid, hw_rv,
                   xvars, nvars, mvars>>

-----------------------------------------------------------------------------
(* get_conditions, load_geographic_map, write_offline_table, main *)

\* The labels explored: two of the range MN001..MN999 and one outside it.
MainLabels == {PanelLabel(id) : id \in PanelIds}

\* The mappings get_midas_conditions returns that are explored.
MidasRecords == {[readout_disabled |-> d] : d \in {<<>>, <<0, MaskLen - 1>>}}

MidasResults == UNION {[S -> MidasRecords] : S \in SUBSET MainLabels}

\* The mappings get_hardware_conditions returns that are explored.
HardwareRecords ==
    {[missing_straws |-> <<>>, missing_wires |-> <<>>],
     [missing_straws |-> <<3, 7>>, missing_wires |-> <<1>>]}

HardwareResults == UNION {[S -> HardwareRecords] : S \in SUBSET MainLabels}

\* args.panels: None, or the labels given with -p.
NoPanels == [given |-> FALSE, panels |-> {}]

PanelArgs ==
    {NoPanels}
        \cup {[given |-> TRUE, panels |-> P] :
                P \in {{PanelLabel(1)},
                       {PanelLabel(2), PanelLabel(3)},
                       {PanelLabel(1), PanelLabel(2), PanelLabel(1000)}}}

\* The (plane, panel) coordinate the mapping file gives a label.
Coordinate(label) ==
    IF label = PanelLabel(1) THEN <<1, 2>>
    ELSE IF label = PanelLabel(2) THEN <<1, 3>>
    ELSE <<0, 0>>

\* load_geographic_map: the dicts explored, one of them without MN002.
GeoMaps ==
    {[l \in S |-> Coordinate(l)] :
        S \in {MainLabels \cup {PanelLabel(3)}, MainLabels \ {PanelLabel(2)}}}

\* set(['MN%03d' % i for i in range(1,999+1)])
DefaultAllowed == {PanelLabel(i) : i \in 1..999}

\* d.update(e)
DictUpdate(d, e) ==
    [k \in DOMAIN d \cup DOMAIN e |-> IF k \in DOMAIN e THEN e[k] ELSE d[k]]

\* The union of the keys without the intersection with allowed.
MergeKeysUnfiltered(m, h, a) == DOMAIN m \cup DOMAIN h

\* The set keys of get_conditions.
MergeKeys(m, h, a) == (DOMAIN m \cup DOMAIN h) \cap a

\* The loop body without the update from midas_conditions.
MergeRecordHardwareOnly(key, m, h) ==
    IF key \in DOMAIN h THEN DictUpdate(EmptyDict, h[key]) ELSE EmptyDict

\* The body of the loop over keys: the dict tmp for one key.
MergeRecord(key, m, h) ==
    LET tmp1 == IF key \in DOMAIN m THEN DictUpdate(EmptyDict, m[key])
                ELSE EmptyDict
    IN  IF key \in DOMAIN h THEN DictUpdate(tmp1, h[key]) ELSE tmp1

\* The sequences that hold each element of S once: the orders in which a
\* set, and the dict filled by a loop over it, may be iterated.
RECURSIVE Orders(_)
Orders(S) ==
    IF S = {} THEN {<<>>}
    ELSE UNION {{<<x>> \o t : t \in Orders(S \ {x})} : x \in S}

\* main's status_levels, each dict as the sequence of its items.
status_levels ==
    << <<"TrkStrawStatusLong",
         << <<"Absent", "missing_straws">>, <<"NoWire", "missing_wires">> >> >>,
       <<"TrkStrawStatusShort",
         << <<"Disabled", "readout_disabled">> >> >> >>

\* The str passed to write, as its format and the values formatted.
HeaderLine(level) == [fmt |-> "%s", ints |-> <<>>, str |-> level]

DataLine(plane, panel, straw, label) ==
    [fmt |-> "%d_%d_%d, %s", ints |-> <<plane, panel, straw>>, str |-> label]

\* The lines written for one panel under one criterion: one per straw.
PanelLines(coord, straws, label) ==
    [i \in 1..Len(straws) |-> DataLine(coord[1], coord[2], straws[i], label)]

\* config = load_config(...); geography = load_geographic_map(...), and the
\* arguments parsed.
LoadFiles ==
    /\ pc = "main"
    /\ \E g \in GeoMaps, a \in PanelArgs :
          /\ geography' = g
          /\ allowed' = a
    /\ pc' = "midas"
    /\ UNCHANGED <<exc, midas_conditions, hardware_conditions, conditions,
                   order, il, ic, ip, out, xvars, nvars, hvars>>

\* midas_conditions = get_midas_conditions(...)
MidasReturns ==
    /\ pc = "midas"
    /\ \E m \in MidasResults : midas_conditions' = m
    /\ pc' = "hardware"
    /\ UNCHANGED <<exc, geography, hardware_conditions, allowed, conditions,
                   order, il, ic, ip, out, xvars, nvars, hvars>>

MidasRaises ==
    /\ pc = "midas"
    /\ exc' = Raise("Exception", "get_midas_conditions")
    /\ pc' = "raised"
    /\ UNCHANGED <<mvars, xvars, nvars, hvars>>

\* hardware_conditions = get_hardware_conditions(...)
HardwareReturns ==
    /\ pc = "hardware"
    /\ \E h \in HardwareResults : hardware_conditions' = h
    /\ pc' = "merge"
    /\ UNCHANGED <<exc, geography, midas_conditions, allowed, conditions,
                   order, il, ic, ip, out, xvars, nvars, hvars>>

HardwareRaises ==
    /\ pc = "hardware"
    /\ exc' = Raise("Exception", "get_hardware_conditions")
    /\ pc' = "raised"
    /\ UNCHANGED <<mvars, xvars, nvars, hvars>>

\* Lines 129-144 of get_conditions; the dict returned is iterated in the
\* order in which the loop over the set keys filled it.
Merge ==
    /\ pc = "merge"
    /\ LET a == IF allowed.given THEN allowed.panels ELSE DefaultAllowed
           keys == MergeKeys(midas_conditions, hardware_conditions, a)
       IN  /\ conditions' =
                 [key \in keys |->
                     MergeRecord(key, midas_conditions, hardware_conditions)]
           /\ \E o \in Orders(keys) : order' = o
    /\ il' = 1
    /\ pc' = "level"
    /\ UNCHANGED <<exc, geography, midas_conditions, hardware_conditions,
                   allowed, ic, ip, out, xvars, nvars, hvars>>

\* for level,criteria in scheme.items(): write(level)
WriteLevel ==
    /\ pc = "level"
    /\ il <= Len(status_levels)
    /\ out' = Append(out, HeaderLine(status_levels[il][1]))
    /\ ic' = 1
    /\ ip' = 1
    /\ pc' = "panel"
    /\ UNCHANGED <<exc, geography, midas_conditions, hardware_conditions,
                   allowed, conditions, order, il, xvars, nvars, hvars>>

\* The loop over the levels is exhausted: write_offline_table returns.
LevelsDone ==
    /\ pc = "level"
    /\ il > Len(status_levels)
    /\ pc' = "done"
    /\ UNCHANGED <<exc, mvars, xvars, nvars, hvars>>

\* The loop over the criteria of the level is exhausted.
CriteriaDone ==
    /\ pc = "panel"
    /\ ic > Len(status_levels[il][2])
    /\ il' = il + 1
    /\ pc' = "level"
    /\ UNCHANGED <<exc, geography, midas_conditions, hardware_conditions,
                   allowed, conditions, order, ic, ip, out, xvars, nvars, hvars>>

\* write(level) placed in the loop over the criteria: the header is written
\* again before the next criterion.
PanelsWrittenHeaderAgain ==
    /\ pc = "panel"
    /\ ic <= Len(status_levels[il][2])
    /\ ip > Len(order)
    /\ ic' = ic + 1
    /\ ip' = 1
    /\ out' = IF ic < Len(status_levels[il][2])
              THEN Append(out, HeaderLine(status_levels[il][1]))
              ELSE out
    /\ UNCHANGED <<pc, exc, geography, midas_conditions, hardware_conditions,
                   allowed, conditions, order, il, xvars, nvars, hvars>>

\* The loop over the panels is exhausted for this criterion.
PanelsWritten ==
    /\ pc = "panel"
    /\ ic <= Len(status_levels[il][2])
    /\ ip > Len(order)
    /\ ic' = ic + 1
    /\ ip' = 1
    /\ UNCHANGED <<pc, exc, geography, midas_conditions, hardware_conditions,
                   allowed, conditions, order, il, out, xvars, nvars, hvars>>

\* One turn of the loop over conditions.items(): the two lookups and the
\* writes of the loop over the straws.
WritePanel ==
    /\ pc = "panel"
    /\ ic <= Len(status_levels[il][2])
    /\ ip <= Len(order)
    /\ LET label == status_levels[il][2][ic][1]
           lookup == status_levels[il][2][ic][2]
           minnesota == order[ip]
           collections == conditions[minnesota]
       IN  IF minnesota \notin DOMAIN geography
           THEN /\ exc' = [type |-> "KeyError", msg |-> "", label |-> minnesota,
                         inner |-> ""]
                /\ pc' = "raised"
                /\ UNCHANGED <<ip, out>>
           ELSE IF lookup \notin DOMAIN collections
           THEN /\ exc' = Raise("KeyError", lookup)
                /\ pc' = "raised"
                /\ UNCHANGED <<ip, out>>
           ELSE /\ out' = out \o PanelLines(geography[minnesota],
                                            collections[lookup], label)
                /\ ip' = ip + 1
                /\ UNCHANGED <<pc, exc>>
    /\ UNCHANGED <<geography, midas_conditions, hardware_conditions, allowed,
                   conditions, order, il, ic, xvars, nvars, hvars>>

-----------------------------------------------------------------------------
(* Specifications *)

IdleX == buff = <<>> /\ chunk = <<>> /\ parsed = "unset"

IdleN ==
    /\ stkeys = {} /\ plkeys = {} /\ pnkeys = {}
    /\ kst = <<>> /\ kpl = <<>> /\ kpn = <<>>
    /\ vpn = EmptyDict
    /\ rv = EmptyDict

IdleH ==
    /\ connection = "none" /\ transaction = "idle" /\ cursor = "none"
    /\ query = <<>> /\ lastid = 0 /\ hw_rv = EmptyDict

IdleM ==
    /\ geography = EmptyDict
    /\ midas_conditions = EmptyDict
    /\ hardware_conditions = EmptyDict
    /\ allowed = NoPanels
    /\ conditions = EmptyDict
    /\ order = <<>>
    /\ il = 0 /\ ic = 0 /\ ip = 0
    /\ out = <<>>

Idle == exc = NoExc /\ IdleX /\ IdleN /\ IdleH /\ IdleM

\* fetch_midas_configuration is called.
InitExtract == pc = "fetch" /\ Idle

NextExtract == FetchCompressed \/ FetchFails \/ ExtractStep \/ JsonLoads

SpecExtract == InitExtract /\ [][NextExtract]_vars

\* get_midas_conditions has reached the Tracker dict: rv = {}
InitNavigate == pc = "stations" /\ Idle

NextNavigate ==
    \/ StationNext \/ StationsDone
    \/ PlaneNext \/ PlanesDone
    \/ PanelNext \/ PanelsDone
    \/ PanelBody

SpecNavigate == InitNavigate /\ [][NextNavigate]_vars

\* get_hardware_conditions is called.
InitHardware == pc = "connect" /\ Idle

NextHardware ==
    \/ Connect \/ ConnectFails
    \/ OpenCursor \/ CursorFails
    \/ Execute \/ ExecuteFails
    \/ NextRow \/ RowFails \/ RowsDone
    \/ Commit \/ CommitFails
    \/ Close

SpecHardware == InitHardware /\ [][NextHardware]_vars

\* main is called.
Init == pc = "main" /\ Idle

Next ==
    \/ LoadFiles
    \/ MidasReturns \/ MidasRaises
    \/ HardwareReturns \/ HardwareRaises
    \/ Merge
    \/ WriteLevel \/ LevelsDone \/ CriteriaDone \/ PanelsWritten \/ WritePanel

Spec == Init /\ [][Next]_vars

-----------------------------------------------------------------------------
(* The Object Extractor: fetch_midas_configuration *)

\* The depth counter after the byte at 0-based index i: +1 for each '{' and
\* -1 for each '}' among the bytes start..i.
Depth(b, i) ==
    Cardinality({j \in start..i : b[j + 1] = plus})
        - Cardinality({j \in start..i : b[j + 1] = mnus})

\* The indices at which the counter is zero.
Closes(b) == {k \in start..(Len(b) - 1) : Depth(b, k) = 0}

\* The index at which the counter first returns to zero.
FirstClose(b) == CHOOSE k \in Closes(b) : \A j \in Closes(b) : k <= j

\* The extractor has run on buff.
Scanned == pc \notin {"fetch", "scan"} /\ Len(buff) > start

\* C1: when the byte at offset 16 is '{' and the depth counter first returns
\* to zero at index k, the extracted substring is buff[16..k], closing byte
\* included, and the extractor gives the same substring for every buffer
\* that agrees with buff up to index k, whatever follows.
C1_BalancedRegion ==
    (Scanned /\ buff[start + 1] = plus /\ Closes(buff) # {}) =>
        LET k == FirstClose(buff) IN
            /\ chunk = [i \in 1..(k - start + 1) |-> buff[start + i]]
            /\ \A b \in Buffers :
                  (Len(b) > k /\ SubSeq(b, 1, k + 1) = SubSeq(buff, 1, k + 1))
                      => ExtractObject(b) = chunk

\* A nested object followed by trailing bytes that end in a brace has been
\* extracted.
C1_Witness ==
    /\ pc = "loads"
    /\ Closes(buff) # {}
    /\ FirstClose(buff) < Len(buff) - 1
    /\ buff[Len(buff)] \in {plus, mnus}
    /\ Len(chunk) >= 2

\* C2: when the byte at offset 16 is not '{', or it is '{' and the counter
\* never returns to zero, the extractor fails with 'malformed midas
\* configuration' and hands no substring to the JSON parser.
C2_MalformedStream ==
    (Scanned /\ (buff[start + 1] # plus \/ Closes(buff) = {})) =>
        /\ pc = "raised"
        /\ exc = Raise("Exception", "malformed midas configuration")
        /\ chunk = <<>>

-----------------------------------------------------------------------------
(* The Configuration Navigator: get_midas_conditions *)

MalformedMask(label) ==
    RaiseLabelled("exception: %s: %s", label, "malformed readout mask")

DuplicateLabel(label) == RaiseLabelled("encountered duplicate panel %s", label, "")

\* The loop body is about to run on a panel that has a Name and a ch_mask.
AtPanel == pc = "body" /\ {"Name", "ch_mask"} \subseteq DOMAIN vpn

\* d is the ascending list of the indices of mask whose entry is falsy.
IsDisabledList(d, mask) ==
    /\ \A i, j \in DOMAIN d : i < j => d[i] < d[j]
    /\ {d[i] : i \in DOMAIN d} = {i \in 0..(Len(mask) - 1) : ~mask[i + 1]}

\* An entry of rv, once recorded, stays as it is.
EntriesKept == \A l \in DOMAIN rv : l \in DOMAIN rv' /\ rv'[l] = rv[l]

\* C8 as stated: a reached panel whose ch_mask has a length other than 96
\* makes the traversal fail with the malformed-mask error carrying the
\* panel's Name, with no entry recorded for that label.
C8_AnyBadMask ==
    [][(AtPanel /\ Len(vpn["ch_mask"]) # MaskLen) =>
          /\ pc' = "raised"
          /\ exc' = MalformedMask(vpn["Name"])
          /\ vpn["Name"] \notin DOMAIN rv']_vars

\* C8, amended: a reached panel whose ch_mask has a length other than 96 and
\* whose Name is not yet recorded makes the traversal fail with the
\* malformed-mask error carrying the panel's Name, nothing returned and no
\* entry recorded for the label; a reached panel with a 96-entry mask and a
\* Name not yet recorded is recorded with readout_disabled the ascending
\* list of the indices in 0..95 whose mask entry is falsy, and the entry
\* stays so until the mapping is returned.
C8_MaskCheck ==
    /\ [][(AtPanel /\ Len(vpn["ch_mask"]) # MaskLen
              /\ vpn["Name"] \notin DOMAIN rv) =>
             /\ pc' = "raised"
             /\ exc' = MalformedMask(vpn["Name"])
             /\ rv' = rv]_vars
    /\ [][(AtPanel /\ Len(vpn["ch_mask"]) = MaskLen
              /\ vpn["Name"] \notin DOMAIN rv) =>
             /\ pc' = "panels"
             /\ exc' = NoExc
             /\ DOMAIN rv' = DOMAIN rv \cup {vpn["Name"]}
             /\ DOMAIN rv'[vpn["Name"]] = {"readout_disabled"}
             /\ IsDisabledList(rv'[vpn["Name"]]["readout_disabled"],
                               vpn["ch_mask"])]_vars
    /\ [][EntriesKept]_vars
    /\ [][pc = "raised" => pc' = "raised"]_vars

\* A panel with a short mask has stopped a traversal that had recorded a
\* panel with disabled channels.
C8_Witness ==
    /\ pc = "raised"
    /\ exc = MalformedMask(PanelLabel(2))
    /\ DOMAIN rv = {PanelLabel(1)}
    /\ rv[PanelLabel(1)]["readout_disabled"] = <<0, MaskLen - 1>>

\* C9: a reached panel whose Name is already recorded makes the traversal
\* fail with the duplicate-panel error carrying the label, whatever its
\* mask; no recorded entry is ever overwritten and nothing is returned; a
\* key that does not match its level's pattern is skipped, so the loop body
\* only ever runs under three matching keys.
C9_DuplicateCheck ==
    /\ [][(pc = "body" /\ "Name" \in DOMAIN vpn /\ vpn["Name"] \in DOMAIN rv) =>
             /\ pc' = "raised"
             /\ exc' = DuplicateLabel(vpn["Name"])
             /\ rv' = rv]_vars
    /\ [][EntriesKept]_vars
    /\ [][pc = "raised" => pc' = "raised"]_vars
    /\ [][(stkeys' # stkeys /\ ~MatchStation(kst')) =>
             (pc' = "stations" /\ rv' = rv /\ exc' = exc)]_vars
    /\ [][(plkeys' # plkeys /\ ~MatchPlane(kpl')) =>
             (pc' = "planes" /\ rv' = rv /\ exc' = exc)]_vars
    /\ [][(pnkeys' # pnkeys /\ ~MatchPanel(kpn')) =>
             (pc' = "panels" /\ rv' = rv /\ exc' = exc)]_vars
    /\ [](pc = "body" => MatchStation(kst) /\ MatchPlane(kpl) /\ MatchPanel(kpn))

\* A second panel named like a recorded one, with a mask of the wrong
\* length, under the second station, has stopped the traversal.
C9_Witness ==
    /\ pc = "raised"
    /\ exc = DuplicateLabel(PanelLabel(1))
    /\ vpn["Name"] = PanelLabel(1)
    /\ "ch_mask" \in DOMAIN vpn
    /\ Len(vpn["ch_mask"]) # MaskLen
    /\ Cardinality({k \in stkeys : MatchStation(k)}) = 2
    /\ PanelLabel(1) \in DOMAIN rv

-----------------------------------------------------------------------------
(* The database session: get_hardware_conditions *)

\* get_hardware_conditions has been left, by return or by an exception.
Exited == pc \in {"returned", "raised"}

\* C3: whenever the function has exited after opening the connection, the
\* connection is closed.
C3_SessionReleased == (Exited /\ connection # "none") => connection = "closed"

-----------------------------------------------------------------------------
(* The Reconciler: get_conditions *)

\* get_conditions has returned the dict conditions.
Merged == il >= 1

\* l is one of the strings MN001..MN999: 'MN', then three decimal digits
\* that are not all zero.
InFullRange(l) ==
    /\ Len(l) = 5
    /\ l[1] = "M" /\ l[2] = "N"
    /\ \A i \in 3..5 : l[i] \in Digit
    /\ \E i \in 3..5 : l[i] # "0"

\* l is in the AllowedSet in force: the labels given, or MN001..MN999.
IsAllowed(l) == IF allowed.given THEN l \in allowed.panels ELSE InFullRange(l)

\* Every label that occurs in a source, in the argument or in the result.
SomeLabels ==
    DOMAIN midas_conditions \cup DOMAIN hardware_conditions
        \cup allowed.panels \cup DOMAIN conditions

\* C6: a label is a key of the merged mapping exactly when the Navigator or
\* the Fetcher defines it and it is in the AllowedSet, which is
\* MN001..MN999 when none is supplied.
C6_KeySet ==
    Merged =>
        \A l \in SomeLabels :
            l \in DOMAIN conditions <=>
                /\ l \in DOMAIN midas_conditions \cup DOMAIN hardware_conditions
                /\ IsAllowed(l)

\* With an explicit AllowedSet, a label of both sources outside it was
\* dropped, a label in it that no source defines is absent, and a label
\* survived.
C6_Witness ==
    /\ Merged
    /\ allowed.given
    /\ \E l \in DOMAIN midas_conditions \cap DOMAIN hardware_conditions :
          l \notin allowed.panels /\ l \notin DOMAIN conditions
    /\ \E l \in allowed.panels :
          /\ l \notin DOMAIN midas_conditions \cup DOMAIN hardware_conditions
          /\ l \notin DOMAIN conditions
    /\ conditions # EmptyDict

\* The record merged from the two entries n and f of one label has the
\* fields of both, with f's value for a field of f and n's value for any
\* other field of n.
IsUnion(c, n, f) ==
    /\ DOMAIN c = DOMAIN n \cup DOMAIN f
    /\ \A x \in DOMAIN f : c[x] = f[x]
    /\ \A x \in DOMAIN n \ DOMAIN f : c[x] = n[x]

\* Entries that share the field name missing_straws, which the two sources
\* of the program never do.
SharingNavigatorEntry == [readout_disabled |-> <<0>>, missing_straws |-> <<9>>]

\* C7: the merged record of a surviving label is the Navigator's entry when
\* only the Navigator defines the label, the Fetcher's entry when only the
\* Fetcher does, and the union of the two when both do, the Fetcher's value
\* taken for a field name of both.  The two sources never share a field
\* name, so the precedence is also checked on the loop body itself, with a
\* Navigator entry that shares one.
C7_MergedRecord ==
    /\ Merged =>
          \A key \in DOMAIN conditions :
              LET inN == key \in DOMAIN midas_conditions
                  inF == key \in DOMAIN hardware_conditions
              IN  /\ (inN /\ ~inF) => conditions[key] = midas_conditions[key]
                  /\ (inF /\ ~inN) => conditions[key] = hardware_conditions[key]
                  /\ (inN /\ inF) =>
                        IsUnion(conditions[key], midas_conditions[key],
                                hardware_conditions[key])
    /\ \A f \in HardwareRecords :
          IsUnion(MergeRecord("k", [x \in {"k"} |-> SharingNavigatorEntry],
                              [x \in {"k"} |-> f]),
                  SharingNavigatorEntry, f)

\* One label of both sources, one of the Navigator alone and one of the
\* Fetcher alone were merged, under an AllowedSet that holds them all.
C7_Witness ==
    /\ Merged
    /\ \E a, b, c \in DOMAIN conditions :
          /\ a \in DOMAIN midas_conditions \cap DOMAIN hardware_conditions
          /\ midas_conditions[a]["readout_disabled"] # <<>>
          /\ hardware_conditions[a]["missing_straws"] # <<>>
          /\ b \in DOMAIN midas_conditions \ DOMAIN hardware_conditions
          /\ c \in DOMAIN hardware_conditions \ DOMAIN midas_conditions

-----------------------------------------------------------------------------
(* The Table Emitter: write_offline_table *)

\* The declaration of the status scheme in main: the levels in order, and
\* under each level its output labels in order with their source fields.
LevelNames == <<"TrkStrawStatusLong", "TrkStrawStatusShort">>

LabelsOf(level) ==
    IF level = "TrkStrawStatusLong" THEN <<"Absent", "NoWire">>
    ELSE <<"Disabled">>

FieldOf(label) ==
    IF label = "Absent" THEN "missing_straws"
    ELSE IF label = "NoWire" THEN "missing_wires"
    ELSE "readout_disabled"

IsHeader(line) == line.fmt = "%s"

HeaderPositions(lines) == {i \in DOMAIN lines : IsHeader(lines[i])}

\* The position of the header that a line at position i stands under.
HeaderBefore(lines, i) ==
    CHOOSE h \in HeaderPositions(lines) :
        h <= i /\ \A g \in HeaderPositions(lines) : g <= i => g <= h

\* The position of x in the sequence s of distinct elements.
IndexIn(s, x) == CHOOSE i \in DOMAIN s : s[i] = x

RECURSIVE SumOver(_, _)
\* The sum of f[x] over the elements x of S.
SumOver(f, S) ==
    IF S = {} THEN 0
    ELSE LET x == CHOOSE y \in S : TRUE IN f[x] + SumOver(f, S \ {x})

\* The number of data lines written under the level.
DataLinesUnder(lines, level) ==
    Cardinality({i \in DOMAIN lines :
        /\ ~IsHeader(lines[i])
        /\ HeaderPositions(lines) # {}
        /\ lines[HeaderBefore(lines, i)].str = level})

\* The sum, over the merged panels and the source fields declared for the
\* level, of the length of the panel's list for the field.
ListLengths(level) ==
    LET fields == {FieldOf(LabelsOf(level)[i]) : i \in DOMAIN LabelsOf(level)}
        pairs == (DOMAIN conditions) \X fields
    IN  SumOver([q \in pairs |->
                    IF q[2] \in DOMAIN conditions[q[1]]
                    THEN Len(conditions[q[1]][q[2]]) ELSE 0],
                pairs)

\* The complete table has been written.
CompleteTable ==
    /\ \A n \in DOMAIN LevelNames :
          /\ Cardinality({i \in HeaderPositions(out) : out[i].str = LevelNames[n]}) = 1
          /\ DataLinesUnder(out, LevelNames[n]) = ListLengths(LevelNames[n])

\* The run has ended: main has returned or an exception has left it.
Ended == pc \in {"done", "raised"}

\* C4: a run that has ended has written the complete table or no line at
\* all.
C4_AllOrNothing == Ended => (CompleteTable \/ out = <<>>)

\* C5: when the geographic map covers every merged label,
\* write_offline_table completes, and under each level it has written as
\* many data lines as the lists of the level's source fields hold, each of
\* the form '{plane}_{panel}_{index}, {outputLabel}'.
C5_LineCount ==
    (Ended /\ Merged /\ DOMAIN conditions \subseteq DOMAIN geography) =>
        /\ pc = "done"
        /\ \A n \in DOMAIN LevelNames :
              DataLinesUnder(out, LevelNames[n]) = ListLengths(LevelNames[n])
        /\ \A i \in DOMAIN out :
              ~IsHeader(out[i]) =>
                  /\ out[i].fmt = "%d_%d_%d, %s"
                  /\ Len(out[i].ints) = 3

\* C10: in the lines written so far, the headers are the names of the first
\* levels of the scheme, in declaration order and each once; the first line
\* is a header; every data line carries an output label declared under the
\* level of the header it follows, and the output labels under one header
\* appear in declaration order; when write_offline_table has returned,
\* every level's header has been written.
C10_Ordering ==
    LET hs == HeaderPositions(out) IN
    /\ \A h \in hs :
          LET n == Cardinality({g \in hs : g <= h})
          IN  n <= Len(LevelNames) /\ out[h].str = LevelNames[n]
    /\ out # <<>> => 1 \in hs
    /\ \A i \in DOMAIN out \ hs :
          LET labels == LabelsOf(out[HeaderBefore(out, i)].str)
          IN  /\ \E c \in DOMAIN labels : labels[c] = out[i].str
              /\ \A j \in DOMAIN out \ hs :
                    (i < j /\ HeaderBefore(out, j) = HeaderBefore(out, i)) =>
                        /\ \E c \in DOMAIN labels : labels[c] = out[j].str
                        /\ IndexIn(labels, out[i].str) <= IndexIn(labels, out[j].str)
    /\ pc = "done" => Cardinality(hs) = Len(LevelNames)

\* A table with data lines of two panels under the first level and of all
\* three output labels has been written.
C10_Witness ==
    /\ pc = "done"
    /\ \A l \in {"Absent", "NoWire", "Disabled"} :
          \E i \in DOMAIN out : ~IsHeader(out[i]) /\ out[i].str = l
    /\ \E i, j \in DOMAIN out :
          /\ ~IsHeader(out[i]) /\ ~IsHeader(out[j])
          /\ out[i].str = "Absent" /\ out[j].str = "Absent"
          /\ out[i].ints[2] # out[j].ints[2]

=============================================================================
